---- MODULE Spec2Model ----
(***************************************************************************)
(* Model of the two cache structures of the repository:                    *)
(*   src/task_1.py  LRUCache (OrderedDict based) and the range-sum service *)
(*                  built on it (range_sum_with_cache, update_with_cache), *)
(*   src/task_2.py  SplayTree (insert, find, _splay and the two rotations) *)
(* The variables of the first file come first; the two components share   *)
(* no state.                                                               *)
(***************************************************************************)
EXTENDS Integers, Sequences, FiniteSets, TLC

(* ------------------------------ bounds --------------------------------- *)
\* length of the backing array (N in the benchmark, far larger there)
ArrayLen == 2
\* largest capacity an LRUCache is constructed with
MaxCapacity == 2

\* capacities handed to the constructor: it accepts any integer
Capacities == (0 - 1) .. MaxCapacity
\* element values of the array: the functions accept any integers
ArrayValues == {0 - 1, 1}
\* values handed to LRUCache.put by a direct caller
PutValues == {0 - 1, 1}
Indices == 0 .. (ArrayLen - 1)
\* number of distinct keys handed to the splay tree
NumKeys == 4
\* largest n handed to fibonacci_splay
MaxFib == 6

\* the keys of the cache: ranges (left, right) with left <= right, as
\* make_queries generates them
RangeKeys == {k \in Indices \X Indices : k[1] <= k[2]}

VARIABLES
    cache,              \* LRUCache.cache: the OrderedDict, oldest entry first
    capacity,           \* LRUCache.capacity
    array_with_cache,   \* the array the cached service works on
    array_no_cache,     \* the array the uncached service works on
    last,               \* history: the last call, its arguments and result
    recency,            \* history: present keys by last put / successful get
    got,                \* history: present keys with a successful get
    lost,               \* history: the keys of got the last call removed
    older,              \* history: per key of got, the entries present at its
                        \*   last successful get, not evicted or re-accessed since
    scen,               \* history: progress through the capacity-2 scenario
    fresh               \* history: the puts so far while the run is only puts
                        \*   of pairwise distinct keys

VARIABLES
    root,               \* SplayTree.root: a node, or NIL for None
    left,               \* Node.left of every node
    right,              \* Node.right of every node
    parent,             \* Node.parent of every node
    value,              \* Node.value of every node
    nodes,              \* the Node objects linked into the tree so far
    pc,                 \* where the running call is: "idle" between calls,
                        \*   "splay" at the head of the loop of _splay,
                        \*   "rotate2" before the second rotation of a step
    node,               \* the argument of the running _splay
    second,             \* the direction of the pending second rotation
    call,               \* history: the running or last call and its result
    before,             \* history: nodes and values when the running call began
                        \*   and, for a find repeating the find before it, the
                        \*   tree and the result that find left
    depth0,             \* history: the depth of node when its _splay began
    rots,               \* history: the rotations of the running _splay so far
    stored,             \* history: per key, the value of its latest insert
    tscen               \* history: progress through the 5,3,8,1,4 scenario

treeHistory == <<before, depth0, rots, stored, tscen>>

splayVars == <<root, left, right, parent, value, nodes, pc, node, second, call,
               treeHistory>>

lruVars == <<cache, capacity, array_with_cache, array_no_cache, last,
             recency, got, lost, older, scen, fresh>>

(* --------------------- OrderedDict, as the code uses it ---------------- *)
\* an entry of the OrderedDict
Entry(key, v) == [key |-> key, value |-> v]

Keys(c) == {c[i].key : i \in DOMAIN c}

\* key in self.cache
Contains(c, key) == key \in Keys(c)

\* self.cache[key] (read), for a key that is present
getitem(c, key) == c[CHOOSE i \in DOMAIN c : c[i].key = key].value

\* self.cache[key] = v: a present key keeps its position, a new one is
\* appended
setitem(c, key, v) ==
    IF Contains(c, key)
    THEN [i \in DOMAIN c |-> IF c[i].key = key THEN Entry(key, v) ELSE c[i]]
    ELSE Append(c, Entry(key, v))

\* self.cache.move_to_end(key), for a key that is present
move_to_end(c, key) ==
    Append(SelectSeq(c, LAMBDA e : e.key # key), Entry(key, getitem(c, key)))

\* popitem() with its default last=True: the newest entry goes
popitem_last(c) == SubSeq(c, 1, Len(c) - 1)

\* self.cache.popitem(last=False), for a non-empty dict
popitem_first(c) == Tail(c)

\* del cache.cache[key], for a key that is present
delitem(c, key) == SelectSeq(c, LAMBDA e : e.key # key)

(* ------------------------------ LRUCache ------------------------------- *)
\* get that returns the value without move_to_end
get_without_promotion(c, key) ==
    IF ~Contains(c, key)
    THEN [cache |-> c, ret |-> 0 - 1]
    ELSE [cache |-> c, ret |-> getitem(c, key)]

\* get written with setdefault: a miss stores the key with -1
get_setdefault(c, key) ==
    IF ~Contains(c, key)
    THEN [cache |-> Append(c, Entry(key, 0 - 1)), ret |-> 0 - 1]
    ELSE [cache |-> move_to_end(c, key), ret |-> getitem(c, key)]

\* LRUCache.get: the cache after the call and the value returned
get(c, key) ==
    IF ~Contains(c, key)
    THEN [cache |-> c, ret |-> 0 - 1]
    ELSE [cache |-> move_to_end(c, key), ret |-> getitem(c, key)]

\* put without the capacity test
put_never_evicts(c, cap, key, v) == move_to_end(setitem(c, key, v), key)

\* put that evicts at len >= capacity
put_evicts_when_full(c, cap, key, v) ==
    LET c2 == move_to_end(setitem(c, key, v), key)
    IN  IF Len(c2) >= cap THEN popitem_first(c2) ELSE c2

\* put that makes room before storing: it evicts when the cache is full,
\* whether or not the key is already there
put_makes_room_first(c, cap, key, v) ==
    LET c0 == IF Len(c) >= cap /\ Len(c) > 0 THEN popitem_first(c) ELSE c
    IN  move_to_end(setitem(c0, key, v), key)

\* LRUCache.put: the cache after the call
put(c, cap, key, v) ==
    LET c1 == setitem(c, key, v)
        c2 == move_to_end(c1, key)
    IN  IF Len(c2) > cap THEN popitem_first(c2) ELSE c2

(* -------------------------- range-sum service -------------------------- *)
RECURSIVE SumFrom(_, _, _)
\* sum(array[l: r + 1]) for 0 <= l and r < len(array)
SumFrom(array, l, r) ==
    IF l > r THEN 0 ELSE array[l] + SumFrom(array, l + 1, r)

range_sum_no_cache(array, l, r) == SumFrom(array, l, r)

update_no_cache(array, index, v) == [array EXCEPT ![index] = v]

\* range_sum_with_cache: the cache after the call and the value returned
range_sum_with_cache(array, l, r, c, cap) ==
    LET key == <<l, r>>
        g == get(c, key)
    IN  IF g.ret = 0 - 1
        THEN LET result == SumFrom(array, l, r)
             IN  [cache |-> put(g.cache, cap, key, result), ret |-> result]
        ELSE g

\* the test written l < index <= r
keys_to_invalidate_strict(c, index) ==
    LET hit == SelectSeq(c, LAMBDA e : e.key[1] < index /\ index <= e.key[2])
    IN  [i \in DOMAIN hit |-> hit[i].key]

\* the first loop of update_with_cache: the keys (l, r) with l <= index <= r,
\* in the order of the dict
keys_to_invalidate(c, index) ==
    LET hit == SelectSeq(c, LAMBDA e : e.key[1] <= index /\ index <= e.key[2])
    IN  [i \in DOMAIN hit |-> hit[i].key]

RECURSIVE invalidate(_, _)
\* the second loop of update_with_cache: delete each listed key still present
invalidate(c, ks) ==
    IF ks = <<>> THEN c
    ELSE invalidate(IF Contains(c, Head(ks)) THEN delitem(c, Head(ks)) ELSE c,
                    Tail(ks))

\* update that leaves the cache alone
update_without_invalidation(array, index, v, c) ==
    [array |-> [array EXCEPT ![index] = v], cache |-> c]

\* update_with_cache: the array and the cache after the call
update_with_cache(array, index, v, c) ==
    [array |-> [array EXCEPT ![index] = v],
     cache |-> invalidate(c, keys_to_invalidate(c, index))]

(* --------------------------- history variables ------------------------- *)
\* the access order after key is accessed: key becomes the most recent
Touch(h, key) == Append(SelectSeq(h, LAMBDA k : k # key), key)

\* the capacity-2 scenario: put(A,1), put(B,2), get(A), put(C,3)
ScenA == <<0, 0>>
ScenB == <<0, 1>>
ScenC == <<1, 1>>
ScenarioValues == {1, 2, 3}
Scenario ==
    << [op |-> "put", key |-> ScenA, value |-> 1],
       [op |-> "put", key |-> ScenB, value |-> 2],
       [op |-> "get", key |-> ScenA, value |-> 0],
       [op |-> "put", key |-> ScenC, value |-> 3] >>

\* which history variables each specification keeps
DirectHistory == {"last", "recency", "fresh"}
RecencyHistory == {"track", "scen"}
ServiceHistory == {"last"}

\* History kept by a call; the variables not named in keep stay as they are.
\* call: the operation, its arguments and result; touched: the keys the call
\* accessed (put, or found by get); hit: the call's get found its key; c1: the
\* cache after the call.
History(keep, ev, touched, hit, c1) ==
    LET h1 == IF touched = {} THEN recency
              ELSE Touch(recency, CHOOSE k \in touched : TRUE)
        got1 == (got \cup (IF hit THEN touched ELSE {})) \cap Keys(c1)
    IN  /\ IF "last" \in keep
           THEN last' = ev @@ [size |-> Len(cache)]
           ELSE UNCHANGED last
        /\ IF "recency" \in keep
           THEN recency' = SelectSeq(h1, LAMBDA k : k \in Keys(c1))
           ELSE UNCHANGED recency
        /\ IF "track" \in keep
           THEN /\ got' = got1
                /\ lost' = got \ Keys(c1)
                /\ older' = [k \in RangeKeys |->
                                IF k \notin got1 THEN {}
                                ELSE IF hit /\ k \in touched
                                     THEN (Keys(cache) \ {k}) \cap Keys(c1)
                                     ELSE (older[k] \ touched) \cap Keys(c1)]
           ELSE UNCHANGED <<got, lost, older>>
        /\ IF "scen" \in keep
           THEN scen' = IF /\ scen >= 0
                           /\ scen < Len(Scenario)
                           /\ capacity = 2
                           /\ ev.op = Scenario[scen + 1].op
                           /\ ev.key = Scenario[scen + 1].key
                           /\ (ev.op = "put"
                                  => ev.value = Scenario[scen + 1].value)
                        THEN scen + 1
                        ELSE 0 - 1
           ELSE UNCHANGED scen
        /\ IF "fresh" \in keep
           THEN fresh' = IF /\ ev.op = "put"
                            /\ fresh.ok
                            /\ Len(fresh.puts) <= capacity
                            /\ \A i \in DOMAIN fresh.puts :
                                   fresh.puts[i].key # ev.key
                         THEN [ok |-> TRUE,
                               puts |-> Append(fresh.puts,
                                               Entry(ev.key, ev.value))]
                         ELSE [ok |-> FALSE, puts |-> <<>>]
           ELSE UNCHANGED fresh

(* ------------------------------- actions ------------------------------- *)
\* LRUCache.__init__ for every capacity, and the two copies of initial_array
LruInit ==
    /\ capacity \in Capacities
    /\ cache = <<>>
    /\ array_with_cache \in [Indices -> ArrayValues]
    /\ array_no_cache = array_with_cache
    /\ last = [op |-> "init"]
    /\ recency = <<>>
    /\ got = {}
    /\ lost = {}
    /\ older = [k \in RangeKeys |-> {}]
    /\ scen = 0
    /\ fresh = [ok |-> TRUE, puts |-> <<>>]

\* a caller's cache.get(key)
Get(keep, key) ==
    LET g == get(cache, key)
    IN  /\ cache' = g.cache
        /\ History(keep, [op |-> "get", key |-> key, ret |-> g.ret,
                          present |-> Contains(cache, key)],
                   IF Contains(cache, key) THEN {key} ELSE {},
                   Contains(cache, key), g.cache)
        /\ UNCHANGED <<capacity, array_with_cache, array_no_cache>>
        /\ UNCHANGED splayVars

\* a caller's cache.put(key, v)
Put(keep, key, v) ==
    LET c1 == put(cache, capacity, key, v)
    IN  /\ cache' = c1
        /\ History(keep, [op |-> "put", key |-> key, value |-> v,
                          present |-> Contains(cache, key)], {key}, FALSE, c1)
        /\ UNCHANGED <<capacity, array_with_cache, array_no_cache>>
        /\ UNCHANGED splayVars

\* one ("Range", l, r) query, served by both services
RangeQuery(keep, l, r) ==
    LET q == range_sum_with_cache(array_with_cache, l, r, cache, capacity)
    IN  /\ cache' = q.cache
        /\ History(keep, [op |-> "range", key |-> <<l, r>>, ret |-> q.ret,
                          ref |-> range_sum_no_cache(array_no_cache, l, r),
                          present |-> Contains(cache, <<l, r>>)],
                   {<<l, r>>}, Contains(cache, <<l, r>>), q.cache)
        /\ UNCHANGED <<capacity, array_with_cache, array_no_cache>>
        /\ UNCHANGED splayVars

\* one ("Update", index, v) query, applied by both services
UpdateQuery(keep, index, v) ==
    LET u == update_with_cache(array_with_cache, index, v, cache)
    IN  /\ cache' = u.cache
        /\ array_with_cache' = u.array
        /\ array_no_cache' = update_no_cache(array_no_cache, index, v)
        /\ History(keep, [op |-> "update", index |-> index, value |-> v,
                          key |-> <<index, index>>], {}, FALSE, u.cache)
        /\ UNCHANGED capacity
        /\ UNCHANGED splayVars

(* ------------------------------ SplayTree ------------------------------ *)
\* keys handed to insert and find, the first NumKeys of this list
KeyPool == <<5, 3, 8, 1, 4, 7, 2, 6>>
SplayKeys == {KeyPool[i] : i \in 1 .. NumKeys}
SplayValues == {10, 20}
\* the keys of the scenario insert 5, 3, 8, 1, 4 then find(1)
TreeScenario == <<5, 3, 8, 1, 4>>
TreeScenarioKeys == {TreeScenario[i] : i \in DOMAIN TreeScenario}
\* the keys fibonacci_splay stores: it returns n itself for n < 2
FibKeys == 2 .. MaxFib

\* Node objects are named by the key they are created with: <<key, 0>> is the
\* first node created with that key, <<key, 1>> a second one
NodeKeys == SplayKeys \cup TreeScenarioKeys \cup FibKeys
NodeIds == NodeKeys \X {0, 1}
NIL == <<0, 0>>

\* Node.key: set by Node.__init__ and never assigned again
KeyOf(n) == n[1]

\* Node(key, value): the object the call creates
NewNode(used, key) == IF <<key, 0>> \in used THEN <<key, 1>> ELSE <<key, 0>>

\* the links of the tree as one value; ok turns FALSE when a step dereferences
\* None (AttributeError)
Tree == [root |-> root, left |-> left, right |-> right, parent |-> parent,
         ok |-> TRUE]

\* _left_rotate with the two branches that re-attach y under x.parent swapped
left_rotate_swapped_reattach(T, x) ==
    IF x = NIL \/ T.right[x] = NIL THEN [T EXCEPT !.ok = FALSE]
    ELSE
    LET y == T.right[x]
        T1 == [T EXCEPT !.right[x] = T.left[y]]
        T2 == IF T1.left[y] # NIL THEN [T1 EXCEPT !.parent[T1.left[y]] = x] ELSE T1
        T3 == [T2 EXCEPT !.parent[y] = T2.parent[x]]
        xp == T3.parent[x]
        T4 == IF xp = NIL THEN [T3 EXCEPT !.root = y]
              ELSE IF x = T3.left[xp] THEN [T3 EXCEPT !.right[xp] = y]
              ELSE [T3 EXCEPT !.left[xp] = y]
        T5 == [T4 EXCEPT !.left[y] = x]
    IN  [T5 EXCEPT !.parent[x] = y]

\* _left_rotate that clears x.right instead of handing it y.left
left_rotate_drops_inner(T, x) ==
    IF x = NIL \/ T.right[x] = NIL THEN [T EXCEPT !.ok = FALSE]
    ELSE
    LET y == T.right[x]
        T1 == [T EXCEPT !.right[x] = NIL]
        T3 == [T1 EXCEPT !.parent[y] = T1.parent[x]]
        xp == T3.parent[x]
        T4 == IF xp = NIL THEN [T3 EXCEPT !.root = y]
              ELSE IF x = T3.left[xp] THEN [T3 EXCEPT !.left[xp] = y]
              ELSE [T3 EXCEPT !.right[xp] = y]
        T5 == [T4 EXCEPT !.left[y] = x]
    IN  [T5 EXCEPT !.parent[x] = y]

\* SplayTree._left_rotate(x), assignment by assignment
left_rotate(T, x) ==
    IF x = NIL \/ T.right[x] = NIL THEN [T EXCEPT !.ok = FALSE]
    ELSE
    LET y == T.right[x]
        T1 == [T EXCEPT !.right[x] = T.left[y]]
        T2 == IF T1.left[y] # NIL THEN [T1 EXCEPT !.parent[T1.left[y]] = x] ELSE T1
        T3 == [T2 EXCEPT !.parent[y] = T2.parent[x]]
        xp == T3.parent[x]
        T4 == IF xp = NIL THEN [T3 EXCEPT !.root = y]
              ELSE IF x = T3.left[xp] THEN [T3 EXCEPT !.left[xp] = y]
              ELSE [T3 EXCEPT !.right[xp] = y]
        T5 == [T4 EXCEPT !.left[y] = x]
    IN  [T5 EXCEPT !.parent[x] = y]

\* _right_rotate without "if y.right: y.right.parent = x"
right_rotate_keeps_inner_parent(T, x) ==
    IF x = NIL \/ T.left[x] = NIL THEN [T EXCEPT !.ok = FALSE]
    ELSE
    LET y == T.left[x]
        T1 == [T EXCEPT !.left[x] = T.right[y]]
        T3 == [T1 EXCEPT !.parent[y] = T1.parent[x]]
        xp == T3.parent[x]
        T4 == IF xp = NIL THEN [T3 EXCEPT !.root = y]
              ELSE IF x = T3.right[xp] THEN [T3 EXCEPT !.right[xp] = y]
              ELSE [T3 EXCEPT !.left[xp] = y]
        T5 == [T4 EXCEPT !.right[y] = x]
    IN  [T5 EXCEPT !.parent[x] = y]

\* SplayTree._right_rotate(x), assignment by assignment
right_rotate(T, x) ==
    IF x = NIL \/ T.left[x] = NIL THEN [T EXCEPT !.ok = FALSE]
    ELSE
    LET y == T.left[x]
        T1 == [T EXCEPT !.left[x] = T.right[y]]
        T2 == IF T1.right[y] # NIL THEN [T1 EXCEPT !.parent[T1.right[y]] = x] ELSE T1
        T3 == [T2 EXCEPT !.parent[y] = T2.parent[x]]
        xp == T3.parent[x]
        T4 == IF xp = NIL THEN [T3 EXCEPT !.root = y]
              ELSE IF x = T3.right[xp] THEN [T3 EXCEPT !.right[xp] = y]
              ELSE [T3 EXCEPT !.left[xp] = y]
        T5 == [T4 EXCEPT !.right[y] = x]
    IN  [T5 EXCEPT !.parent[x] = y]

rotate(T, dir, x) == IF dir = "left" THEN left_rotate(T, x) ELSE right_rotate(T, x)

\* _splay whose zig branch tests node == node.parent.right
splay_first_zig_reversed(T, n) ==
    LET p == T.parent[n]
        g == T.parent[p]
    IN  IF g = NIL
        THEN [tree |-> IF n = T.right[p] THEN right_rotate(T, p)
                       ELSE left_rotate(T, p),
              second |-> "none"]
        ELSE IF n = T.left[p] /\ p = T.left[g]
        THEN [tree |-> right_rotate(T, g), second |-> "right"]
        ELSE IF n = T.right[p] /\ p = T.right[g]
        THEN [tree |-> left_rotate(T, g), second |-> "left"]
        ELSE IF n = T.right[p] /\ p = T.left[g]
        THEN [tree |-> left_rotate(T, p), second |-> "right"]
        ELSE [tree |-> right_rotate(T, p), second |-> "left"]

\* _splay whose zig-zig branches rotate the parent first
splay_first_parent_first(T, n) ==
    LET p == T.parent[n]
        g == T.parent[p]
    IN  IF g = NIL
        THEN [tree |-> IF n = T.left[p] THEN right_rotate(T, p)
                       ELSE left_rotate(T, p),
              second |-> "none"]
        ELSE IF n = T.left[p] /\ p = T.left[g]
        THEN [tree |-> right_rotate(T, p), second |-> "right"]
        ELSE IF n = T.right[p] /\ p = T.right[g]
        THEN [tree |-> left_rotate(T, p), second |-> "left"]
        ELSE IF n = T.right[p] /\ p = T.left[g]
        THEN [tree |-> left_rotate(T, p), second |-> "right"]
        ELSE [tree |-> right_rotate(T, p), second |-> "left"]

\* One pass of the loop body of _splay up to and including its first rotation,
\* for a node with a parent: the tree after it and the direction of the second
\* rotation the chosen branch goes on to make ("none" for zig)
splay_first(T, n) ==
    LET p == T.parent[n]
        g == T.parent[p]
    IN  IF g = NIL
        THEN [tree |-> IF n = T.left[p] THEN right_rotate(T, p)
                       ELSE left_rotate(T, p),
              second |-> "none"]
        ELSE IF n = T.left[p] /\ p = T.left[g]
        THEN [tree |-> right_rotate(T, g), second |-> "right"]
        ELSE IF n = T.right[p] /\ p = T.right[g]
        THEN [tree |-> left_rotate(T, g), second |-> "left"]
        ELSE IF n = T.right[p] /\ p = T.left[g]
        THEN [tree |-> left_rotate(T, p), second |-> "right"]
        ELSE [tree |-> right_rotate(T, p), second |-> "left"]

\* the second rotation of a zig-zig or zig-zag step: around node.parent as it
\* is after the first rotation
splay_second(T, n, dir) == rotate(T, dir, T.parent[n])

RECURSIVE descend(_, _, _, _, _)
\* The descent loop shared by insert and find, from current with parent par:
\* the node holding key (NIL if none) and the last node visited.  fuel counts
\* the iterations a well-formed tree can need; ok is FALSE when they run out,
\* that is when the loop would not end.
descend(T, key, current, par, fuel) ==
    IF current = NIL THEN [found |-> NIL, parent |-> par, ok |-> TRUE]
    ELSE IF fuel = 0 THEN [found |-> NIL, parent |-> par, ok |-> FALSE]
    ELSE IF key < KeyOf(current)
    THEN descend(T, key, T.left[current], current, fuel - 1)
    ELSE IF key > KeyOf(current)
    THEN descend(T, key, T.right[current], current, fuel - 1)
    ELSE [found |-> current, parent |-> par, ok |-> TRUE]

Fuel == Cardinality(NodeIds) + 1

\* the links after a step: the tree T it produced, or the call raising
SetTree(T, next) ==
    /\ root' = T.root
    /\ left' = T.left
    /\ right' = T.right
    /\ parent' = T.parent
    /\ pc' = IF T.ok THEN next ELSE "raised"

SplayInit ==
    /\ root = NIL
    /\ left = [n \in NodeIds |-> NIL]
    /\ right = [n \in NodeIds |-> NIL]
    /\ parent = [n \in NodeIds |-> NIL]
    /\ value = [n \in NodeIds |-> 0]
    /\ nodes = {}
    /\ pc = "idle"
    /\ node = NIL
    /\ second = "none"
    /\ call = [op |-> "init"]
    /\ before = [nodes |-> {}, value |-> [n \in NodeIds |-> 0],
                 again |-> FALSE, links |-> <<>>, prev |-> [op |-> "none"]]
    /\ depth0 = 0
    /\ rots = 0
    /\ stored = [k \in NodeKeys |-> 0]
    /\ tscen = 0

RECURSIVE descend_past_equal(_, _, _, _, _)
\* the descent without the branch for an equal key: it goes right instead
descend_past_equal(T, key, current, par, fuel) ==
    IF current = NIL THEN [found |-> NIL, parent |-> par, ok |-> TRUE]
    ELSE IF fuel = 0 THEN [found |-> NIL, parent |-> par, ok |-> FALSE]
    ELSE IF key < KeyOf(current)
    THEN descend_past_equal(T, key, T.left[current], current, fuel - 1)
    ELSE descend_past_equal(T, key, T.right[current], current, fuel - 1)

\* insert without the test for an existing key: it always attaches a new node
Insert_allows_duplicates(key, val) ==
    LET new_node == NewNode(nodes, key)
        d == descend_past_equal(Tree, key, root, NIL, Fuel)
    IN  /\ pc = "idle"
        /\ call' = [op |-> "insert", key |-> key, value |-> val]
        /\ second' = "none"
        /\ new_node \notin nodes
        /\ d.ok
        /\ nodes' = nodes \cup {new_node}
        /\ value' = [value EXCEPT ![new_node] = val]
        /\ IF root = NIL
           THEN /\ root' = new_node
                /\ UNCHANGED <<left, right, parent, pc, node>>
           ELSE /\ parent' = [parent EXCEPT ![new_node] = d.parent]
                /\ IF key < KeyOf(d.parent)
                   THEN left' = [left EXCEPT ![d.parent] = new_node]
                        /\ UNCHANGED right
                   ELSE right' = [right EXCEPT ![d.parent] = new_node]
                        /\ UNCHANGED left
                /\ node' = new_node
                /\ pc' = "splay"
                /\ UNCHANGED root
        /\ UNCHANGED lruVars

\* SplayTree.insert(key, value) up to its call of _splay (or to its return,
\* on an empty tree)
Insert(key, val) ==
    LET new_node == NewNode(nodes, key)
        d == descend(Tree, key, root, NIL, Fuel)
    IN  /\ pc = "idle"
        /\ call' = [op |-> "insert", key |-> key, value |-> val]
        /\ second' = "none"
        /\ IF root = NIL
           THEN /\ root' = new_node
                /\ nodes' = nodes \cup {new_node}
                /\ value' = [value EXCEPT ![new_node] = val]
                /\ UNCHANGED <<left, right, parent, pc, node>>
           ELSE IF ~d.ok
           THEN /\ pc' = "diverged"
                /\ UNCHANGED <<root, left, right, parent, value, nodes, node>>
           ELSE IF d.found # NIL
           THEN /\ value' = [value EXCEPT ![d.found] = val]
                /\ node' = d.found
                /\ pc' = "splay"
                /\ UNCHANGED <<root, left, right, parent, nodes>>
           ELSE /\ new_node \notin nodes
                /\ parent' = [parent EXCEPT ![new_node] = d.parent]
                /\ IF key < KeyOf(d.parent)
                   THEN left' = [left EXCEPT ![d.parent] = new_node]
                        /\ UNCHANGED right
                   ELSE right' = [right EXCEPT ![d.parent] = new_node]
                        /\ UNCHANGED left
                /\ nodes' = nodes \cup {new_node}
                /\ value' = [value EXCEPT ![new_node] = val]
                /\ node' = new_node
                /\ pc' = "splay"
                /\ UNCHANGED root
        /\ UNCHANGED lruVars

\* find returning the value of the node it found without splaying it
Find_without_splay(key) ==
    LET d == descend(Tree, key, root, NIL, Fuel)
    IN  /\ pc = "idle"
        /\ second' = "none"
        /\ d.ok
        /\ call' = IF d.found # NIL
                   THEN [op |-> "find", key |-> key, found |-> TRUE,
                         ret |-> value[d.found]]
                   ELSE [op |-> "find", key |-> key, found |-> FALSE]
        /\ UNCHANGED <<root, left, right, parent, value, nodes, pc, node>>
        /\ UNCHANGED lruVars

\* find splaying, on a miss, the last node its descent visited
Find_splays_last_visited(key) ==
    LET d == descend(Tree, key, root, NIL, Fuel)
    IN  /\ pc = "idle"
        /\ second' = "none"
        /\ d.ok
        /\ IF d.found # NIL
           THEN /\ pc' = "splay"
                /\ node' = d.found
                /\ call' = [op |-> "find", key |-> key, found |-> TRUE,
                            ret |-> value[d.found]]
           ELSE /\ call' = [op |-> "find", key |-> key, found |-> FALSE]
                /\ IF d.parent # NIL
                   THEN pc' = "splay" /\ node' = d.parent
                   ELSE UNCHANGED <<pc, node>>
        /\ UNCHANGED <<root, left, right, parent, value, nodes>>
        /\ UNCHANGED lruVars

\* SplayTree.find(key) up to its call of _splay, or to its return on a miss
Find(key) ==
    LET d == descend(Tree, key, root, NIL, Fuel)
    IN  /\ pc = "idle"
        /\ second' = "none"
        /\ IF ~d.ok
           THEN /\ pc' = "diverged"
                /\ call' = [op |-> "find", key |-> key, found |-> FALSE]
                /\ UNCHANGED node
           ELSE IF d.found # NIL
           THEN /\ pc' = "splay"
                /\ node' = d.found
                /\ call' = [op |-> "find", key |-> key, found |-> TRUE,
                            ret |-> value[d.found]]
           ELSE /\ call' = [op |-> "find", key |-> key, found |-> FALSE]
                /\ UNCHANGED <<pc, node>>
        /\ UNCHANGED <<root, left, right, parent, value, nodes>>
        /\ UNCHANGED lruVars

\* one pass of the loop of _splay, through its first rotation
SplayStep ==
    /\ pc = "splay"
    /\ parent[node] # NIL
    /\ LET s == splay_first(Tree, node)
       IN  /\ SetTree(s.tree, IF s.second = "none" THEN "splay" ELSE "rotate2")
           /\ second' = s.second
    /\ UNCHANGED <<value, nodes, node, call>>
    /\ UNCHANGED lruVars

\* the second rotation of that pass
SplayRotate2 ==
    /\ pc = "rotate2"
    /\ SetTree(splay_second(Tree, node, second), "splay")
    /\ second' = "none"
    /\ UNCHANGED <<value, nodes, node, call>>
    /\ UNCHANGED lruVars

\* _splay with a loop that may stop before node.parent is None
SplayReturn_before_root ==
    /\ pc = "splay"
    /\ pc' = "idle"
    /\ UNCHANGED <<root, left, right, parent, value, nodes, node, second, call>>
    /\ UNCHANGED lruVars

\* the loop of _splay ends (node.parent is None) and the call returns
SplayReturn ==
    /\ pc = "splay"
    /\ parent[node] = NIL
    /\ pc' = "idle"
    /\ UNCHANGED <<root, left, right, parent, value, nodes, node, second, call>>
    /\ UNCHANGED lruVars

vars == <<lruVars, splayVars>>

Init == LruInit /\ SplayInit

\* the cache on its own, without the service: the arrays play no part, so one
\* array stands for all
DirectInit == Init /\ array_with_cache = [i \in Indices |-> 1]

(* Spec: an LRUCache used directly through get and put *)
GetStep == \E key \in RangeKeys : Get(DirectHistory, key)
PutStep == \E key \in RangeKeys, v \in PutValues : Put(DirectHistory, key, v)

Next == GetStep \/ PutStep

Spec == DirectInit /\ [][Next]_vars

(* SpecRecency: the same calls, with the history that follows each get *)
RecencyGetStep == \E key \in RangeKeys : Get(RecencyHistory, key)
RecencyPutStep ==
    \E key \in RangeKeys, v \in ScenarioValues : Put(RecencyHistory, key, v)

RecencyNext == RecencyGetStep \/ RecencyPutStep

SpecRecency == DirectInit /\ [][RecencyNext]_vars

(* SpecService: the benchmark, the two services fed the same queries *)
RangeStep == \E key \in RangeKeys : RangeQuery(ServiceHistory, key[1], key[2])
UpdateStep ==
    \E index \in Indices, v \in ArrayValues :
        UpdateQuery(ServiceHistory, index, v)

ServiceNext == RangeStep \/ UpdateStep

SpecService == Init /\ [][ServiceNext]_vars

(* SpecAll: direct calls and queries on the same cache *)
AllGetStep == \E key \in RangeKeys : Get(ServiceHistory, key)
AllPutStep ==
    \E key \in RangeKeys, v \in PutValues : Put(ServiceHistory, key, v)

AllNext == AllGetStep \/ AllPutStep \/ RangeStep \/ UpdateStep

SpecAll == Init /\ [][AllNext]_vars

(* SpecSplay: a SplayTree under insert and find, one rotation per step *)
InsertStep ==
    \E key \in SplayKeys, val \in SplayValues :
        Insert(key, val) /\ UNCHANGED treeHistory
FindStep == \E key \in SplayKeys : Find(key) /\ UNCHANGED treeHistory
RotateStep == SplayStep /\ UNCHANGED treeHistory
Rotate2Step == SplayRotate2 /\ UNCHANGED treeHistory
ReturnStep == SplayReturn /\ UNCHANGED treeHistory

SplayNext == InsertStep \/ FindStep \/ RotateStep \/ Rotate2Step \/ ReturnStep

\* the tree on its own: the cache plays no part, so one cache stands for all
TreeInit == DirectInit /\ capacity = MaxCapacity

SpecSplay == TreeInit /\ [][SplayNext]_vars

(* --------------------------- fibonacci_splay ---------------------------- *)
\* the whole SplayTree as one value: the links with the values and the nodes
TreeRec == [root |-> root, left |-> left, right |-> right, parent |-> parent,
            ok |-> TRUE, value |-> value, nodes |-> nodes]

\* Op(x) with x computed once, as a statement of the code computes the value
\* it assigns once
Then(x, Op(_)) == CHOOSE r \in {Op(v) : v \in {x}} : TRUE

RECURSIVE splay(_, _, _)
\* SplayTree._splay(node) run to its end: the passes of its loop, one after
\* the other, until node.parent is None
splay(T, n, fuel) ==
    IF ~T.ok \/ T.parent[n] = NIL THEN T
    ELSE IF fuel = 0 THEN [T EXCEPT !.ok = FALSE]
    ELSE Then(splay_first(T, n), LAMBDA s :
         Then(IF s.second = "none" \/ ~s.tree.ok THEN s.tree
              ELSE splay_second(s.tree, n, s.second), LAMBDA T2 :
         splay(T2, n, fuel - 1)))

\* SplayTree.find(key) run to its return: the tree after it, whether a value
\* was returned (not None), and the value
find(T, key) ==
    Then(descend(T, key, T.root, NIL, Fuel), LAMBDA d :
    IF ~d.ok
    THEN [tree |-> [T EXCEPT !.ok = FALSE], found |-> FALSE, ret |-> 0]
    ELSE IF d.found # NIL
    THEN [tree |-> splay(T, d.found, Fuel), found |-> TRUE,
          ret |-> T.value[d.found]]
    ELSE [tree |-> T, found |-> FALSE, ret |-> 0])

\* insert from its descent on, in a tree that is not empty
insert_below_root(T, key, val, new_node, d) ==
    IF ~d.ok THEN [T EXCEPT !.ok = FALSE]
    ELSE IF d.found # NIL
    THEN Then([T EXCEPT !.value[d.found] = val], LAMBDA T1 :
         splay(T1, d.found, Fuel))
    ELSE Then([T EXCEPT !.parent[new_node] = d.parent,
                        !.nodes = T.nodes \cup {new_node},
                        !.value[new_node] = val], LAMBDA T1 :
         Then(IF key < KeyOf(d.parent)
              THEN [T1 EXCEPT !.left[d.parent] = new_node]
              ELSE [T1 EXCEPT !.right[d.parent] = new_node], LAMBDA T2 :
         splay(T2, new_node, Fuel)))

\* SplayTree.insert(key, value) run to its return: the tree after it
insert(T, key, val) ==
    Then(NewNode(T.nodes, key), LAMBDA new_node :
    IF T.root = NIL
    THEN [T EXCEPT !.root = new_node,
                   !.nodes = T.nodes \cup {new_node},
                   !.value[new_node] = val]
    ELSE Then(descend(T, key, T.root, NIL, Fuel), LAMBDA d :
         insert_below_root(T, key, val, new_node, d)))

RECURSIVE fibonacci_splay_from_one(_, _)
\* fibonacci_splay with the base case n < 1
fibonacci_splay_from_one(n, T) ==
    IF n < 1 THEN [tree |-> T, ret |-> n]
    ELSE Then(find(T, n), LAMBDA f :
         IF f.found THEN [tree |-> f.tree, ret |-> f.ret]
         ELSE Then(fibonacci_splay_from_one(n - 1, f.tree), LAMBDA a :
              Then(fibonacci_splay_from_one(n - 2, a.tree), LAMBDA b :
              Then(a.ret + b.ret, LAMBDA result :
              [tree |-> insert(b.tree, n, result), ret |-> result]))))

RECURSIVE fibonacci_splay(_, _)
\* fibonacci_splay(n, tree): the tree after the call and the value returned
fibonacci_splay(n, T) ==
    IF n < 2 THEN [tree |-> T, ret |-> n]
    ELSE Then(find(T, n), LAMBDA f :
         IF f.found THEN [tree |-> f.tree, ret |-> f.ret]
         ELSE Then(fibonacci_splay(n - 1, f.tree), LAMBDA a :
              Then(fibonacci_splay(n - 2, a.tree), LAMBDA b :
              Then(a.ret + b.ret, LAMBDA result :
              [tree |-> insert(b.tree, n, result), ret |-> result]))))

\* one call fibonacci_splay(n, tree) from outside, run to its return
FibonacciSplay(n) ==
    LET r == fibonacci_splay(n, TreeRec)
    IN  /\ pc = "idle"
        /\ root' = r.tree.root
        /\ left' = r.tree.left
        /\ right' = r.tree.right
        /\ parent' = r.tree.parent
        /\ value' = r.tree.value
        /\ nodes' = r.tree.nodes
        /\ pc' = IF r.tree.ok THEN "idle" ELSE "raised"
        /\ call' = [op |-> "fib", n |-> n, ret |-> r.ret]
        /\ UNCHANGED <<node, second, treeHistory>>
        /\ UNCHANGED lruVars

(* SpecFib: one tree, handed to fibonacci_splay again and again *)
FibStep == \E n \in 0 .. MaxFib : FibonacciSplay(n)

SpecFib == TreeInit /\ [][FibStep]_vars

(* SpecSplayFair: SpecSplay where a call that has begun keeps running, as a
   sequential program does: a step of _splay that can be taken is taken *)
SpecSplayFair ==
    /\ SpecSplay
    /\ WF_vars(RotateStep)
    /\ WF_vars(Rotate2Step)
    /\ WF_vars(ReturnStep)

(* ---------------------- history of the SplayTree ----------------------- *)
RECURSIVE DepthIn(_, _, _)
\* the number of parent links from n up to a node without a parent
DepthIn(par, n, fuel) ==
    IF n = NIL \/ fuel = 0 THEN 0
    ELSE IF par[n] = NIL THEN 0
    ELSE 1 + DepthIn(par, par[n], fuel - 1)

\* the scenario so far: i when the calls of the run are exactly the first i
\* of insert 5, insert 3, insert 8, insert 1, insert 4, find(1), else Off
Off == 0 - 1
TreeScenarioNext(ev) ==
    IF /\ tscen >= 0
       /\ tscen < Len(TreeScenario)
       /\ ev.op = "insert"
       /\ ev.key = TreeScenario[tscen + 1]
    THEN tscen + 1
    ELSE IF tscen = Len(TreeScenario) /\ ev.op = "find" /\ ev.key = 1
    THEN tscen + 1
    ELSE Off

CallsHistory == {"before", "count"}
MapHistory == {"stored", "tscen"}

\* history kept when a call of insert or find begins; ev is the call
CallHistory(keep, ev) ==
    LET again == ev.op = "find" /\ call.op = "find" /\ call.key = ev.key
    IN  /\ IF "before" \in keep
           THEN before' = [nodes |-> nodes, value |-> value, again |-> again,
                           links |-> IF again
                                     THEN <<root, left, right, parent>>
                                     ELSE <<>>,
                           prev |-> IF again THEN call ELSE [op |-> "none"]]
           ELSE UNCHANGED before
        /\ IF "count" \in keep
           THEN /\ depth0' = IF pc' = "splay"
                             THEN DepthIn(parent', node', Fuel) ELSE 0
                /\ rots' = 0
           ELSE UNCHANGED <<depth0, rots>>
        /\ IF "stored" \in keep
           THEN stored' = IF ev.op = "insert"
                          THEN [stored EXCEPT ![ev.key] = ev.value]
                          ELSE stored
           ELSE UNCHANGED stored
        /\ IF "tscen" \in keep
           THEN tscen' = TreeScenarioNext(ev)
           ELSE UNCHANGED tscen

\* history kept by a rotation
RotationHistory(keep) ==
    /\ IF "count" \in keep THEN rots' = rots + 1 ELSE UNCHANGED rots
    /\ UNCHANGED <<before, depth0, stored, tscen>>

\* history kept when _splay returns
ReturnHistory(keep) ==
    /\ IF "count" \in keep
       THEN depth0' = 0 /\ rots' = 0
       ELSE UNCHANGED <<depth0, rots>>
    /\ UNCHANGED <<before, stored, tscen>>

(* SpecSplayCalls: the same tree, with the history of the running call *)
CallsInsertStep ==
    \E key \in SplayKeys, val \in SplayValues :
        /\ Insert(key, val)
        /\ CallHistory(CallsHistory,
                       [op |-> "insert", key |-> key, value |-> val])
CallsFindStep ==
    \E key \in SplayKeys :
        Find(key) /\ CallHistory(CallsHistory, [op |-> "find", key |-> key])
CallsRotateStep == SplayStep /\ RotationHistory(CallsHistory)
CallsRotate2Step == SplayRotate2 /\ RotationHistory(CallsHistory)
CallsReturnStep == SplayReturn /\ ReturnHistory(CallsHistory)

CallsNext ==
    \/ CallsInsertStep
    \/ CallsFindStep
    \/ CallsRotateStep
    \/ CallsRotate2Step
    \/ CallsReturnStep

SpecSplayCalls == TreeInit /\ [][CallsNext]_vars

(* SpecSplayMap: the tree as a map, over the keys of the scenario as well *)
MapKeys == SplayKeys \cup TreeScenarioKeys

MapInsertStep ==
    \E key \in MapKeys, val \in SplayValues :
        /\ Insert(key, val)
        /\ CallHistory(MapHistory,
                       [op |-> "insert", key |-> key, value |-> val])
MapFindStep ==
    \E key \in MapKeys :
        Find(key) /\ CallHistory(MapHistory, [op |-> "find", key |-> key])
MapRotateStep == SplayStep /\ RotationHistory(MapHistory)
MapRotate2Step == SplayRotate2 /\ RotationHistory(MapHistory)
MapReturnStep == SplayReturn /\ ReturnHistory(MapHistory)

MapNext ==
    \/ MapInsertStep
    \/ MapFindStep
    \/ MapRotateStep
    \/ MapRotate2Step
    \/ MapReturnStep

SpecSplayMap == TreeInit /\ [][MapNext]_vars

(* ============================== the claims ============================== *)
Absent == 0 - 1

\* C1 (SpecAll): for a cache constructed with a positive capacity, the number
\* of entries is at most the capacity after every get, put, range query and
\* update.
C1_SizeWithinCapacity == capacity >= 1 => Len(cache) <= capacity

\* a put of a new key on a full cache has run, and the cache is still full
C1_PutOnFullCache ==
    /\ capacity >= 1
    /\ last.op = "put"
    /\ ~last.present
    /\ last.size = capacity
    /\ Len(cache) = capacity

\* C2 (Spec): a put of a key that is not present, on a cache holding exactly
\* capacity entries, removes exactly one entry, the one whose last put or
\* successful get is oldest (the head of recency, a history of keys only, so
\* no stored value decides); every other entry stays, with its value and in
\* its order, and the new entry is added as the most recent.
C2_PutEvictsLeastRecentlyUsed ==
    [][(/\ last'.op = "put"
        /\ ~last'.present
        /\ capacity >= 1
        /\ Len(cache) = capacity)
       => /\ Keys(cache) \ Keys(cache') = {Head(recency)}
          /\ Len(cache') = Len(cache)
          /\ cache' = Append(SelectSeq(cache, LAMBDA e : e.key # Head(recency)),
                             Entry(last'.key, last'.value))]_vars

\* such a put has run on a cache of two or more entries
C2_EvictingPut ==
    /\ capacity >= 2
    /\ last.op = "put"
    /\ ~last.present
    /\ last.size = capacity
    /\ Len(recency) = capacity

\* C3 (SpecRecency): a key with a successful get is evicted only once every
\* other entry that was present at that get has been evicted or re-accessed
\* (older of the key is empty when a call removes it); and in the scenario
\* capacity 2, put(A,1), put(B,2), get(A), put(C,3), B is the one evicted:
\* get(B) returns absent, get(A) returns 1 and get(C) returns 3.
C3_GetMarksMostRecentlyUsed ==
    /\ [][\A k \in got : (k \notin Keys(cache')) => older[k] = {}]_vars
    /\ [](scen = Len(Scenario)
            => /\ ~Contains(cache, ScenB)
               /\ get(cache, ScenB).ret = Absent
               /\ get(cache, ScenA).ret = 1
               /\ get(cache, ScenC).ret = 3)

\* a key that had a successful get has been evicted, from a cache of two or
\* more entries
C3_GotKeyEvicted == lost # {} /\ capacity >= 2

\* C4 (Spec): after capacity + 1 puts of pairwise distinct keys into an empty
\* cache of capacity >= 1, with no other call in between, the first key is
\* absent (get returns -1) and each of the other keys is present with the
\* value it was put with.
C4_FirstOfCapacityPlusOneEvicted ==
    (fresh.ok /\ capacity >= 1 /\ Len(fresh.puts) = capacity + 1)
    => /\ ~Contains(cache, fresh.puts[1].key)
       /\ get(cache, fresh.puts[1].key).ret = Absent
       /\ \A i \in 2 .. (capacity + 1) :
              /\ Contains(cache, fresh.puts[i].key)
              /\ getitem(cache, fresh.puts[i].key) = fresh.puts[i].value

\* capacity + 1 distinct keys have been put into a cache of capacity >= 2
C4_CapacityPlusOnePuts ==
    fresh.ok /\ capacity >= 2 /\ Len(fresh.puts) = capacity + 1

\* C5 (Spec): a get of a key that is not present returns -1 and leaves the
\* entries, their values and their order as they were.
C5_GetMissHasNoSideEffect ==
    [][(last'.op = "get" /\ ~last'.present)
       => (cache' = cache /\ last'.ret = Absent)]_vars

\* a get has missed on a cache of two or more entries
C5_GetMissed == last.op = "get" /\ ~last.present /\ last.size >= 2

\* C6 (Spec), as the claim states it: get returns the absent result exactly
\* when the key is not in the cache.
C6_AbsentResultIffNotPresent ==
    last.op = "get" => (last.ret = Absent <=> ~last.present)

\* C7 (Spec), as the claim states it: no get or put is performed on a cache
\* constructed with a capacity <= 0.
C7_NonPositiveCapacityRejected == capacity <= 0 => last.op = "init"

\* C8 (SpecService): an update of index i removes exactly the entries whose
\* key (l, r) has l <= i <= r; every other entry stays, with its value and
\* in its order.
C8_UpdateRemovesExactlyCoveringRanges ==
    [][last'.op = "update"
       => cache' = SelectSeq(cache, LAMBDA e : ~(e.key[1] <= last'.index
                                                  /\ last'.index <= e.key[2]))]_vars

\* an update has removed some entries and left others
C8_UpdateRemovedSome ==
    last.op = "update" /\ Len(cache) >= 1 /\ Len(cache) < last.size

\* C9 (SpecService): fed the same queries, the two arrays stay equal, every
\* range query gets from range_sum_with_cache what range_sum_no_cache returns,
\* and every cached entry (l, r) -> s has s = sum of the array over l..r.
C9_CachedServiceNeverStale ==
    /\ array_with_cache = array_no_cache
    /\ (last.op = "range" => last.ret = last.ref)
    /\ \A i \in DOMAIN cache :
           cache[i].value = SumFrom(array_with_cache, cache[i].key[1],
                                    cache[i].key[2])

\* a range query has been answered from the cache
C9_ServedFromCache ==
    last.op = "range" /\ last.present /\ last.ret # Absent /\ Len(cache) >= 2

RECURSIVE InOrder(_, _)
\* the keys of the subtree of n in in-order, to depth fuel
InOrder(n, fuel) ==
    IF n = NIL \/ fuel = 0 THEN <<>>
    ELSE InOrder(left[n], fuel - 1) \o <<KeyOf(n)>> \o InOrder(right[n], fuel - 1)

RECURSIVE SubtreeKeys(_, _)
\* the keys of the subtree of n, to depth fuel
SubtreeKeys(n, fuel) ==
    IF n = NIL \/ fuel = 0 THEN {}
    ELSE SubtreeKeys(left[n], fuel - 1) \cup {KeyOf(n)}
         \cup SubtreeKeys(right[n], fuel - 1)

\* C10 (SpecSplay): in every state, between calls and after every single
\* rotation of a splay, every node's left subtree holds only smaller keys
\* and its right subtree only larger ones, every linked node is in the tree,
\* and the in-order traversal is strictly increasing.
C10_BstOrdering ==
    /\ \A n \in nodes :
           /\ \A k \in SubtreeKeys(left[n], Fuel) : k < KeyOf(n)
           /\ \A k \in SubtreeKeys(right[n], Fuel) : k > KeyOf(n)
    /\ LET keys == InOrder(root, Fuel)
       IN  /\ \A i \in 1 .. (Len(keys) - 1) : keys[i] < keys[i + 1]
           /\ Len(keys) = Cardinality(nodes)

\* a splay stands between the two rotations of a zig-zig or zig-zag step
C10_BetweenRotations == pc = "rotate2" /\ Cardinality(nodes) >= 3

\* the keys held by the Node objects of the tree
TreeKeys == {KeyOf(n) : n \in nodes}

\* the links, values and nodes of the tree
TreeState == <<root, left, right, parent, value, nodes>>

\* C11 (SpecSplay): when insert(k, v) has returned, and when a find(k) that
\* found k has returned, the root is the node with key k and it has no parent.
C11_CalledKeyAtRoot ==
    (/\ pc = "idle"
     /\ \/ call.op = "insert"
        \/ call.op = "find" /\ call.found)
    => /\ root # NIL
       /\ KeyOf(root) = call.key
       /\ parent[root] = NIL

\* a find has brought to the root a key that is not the smallest or the
\* largest of a tree of four nodes
C11_FoundInnerKey ==
    /\ pc = "idle"
    /\ call.op = "find"
    /\ call.found
    /\ Cardinality(nodes) = 4
    /\ root # NIL
    /\ left[root] # NIL
    /\ right[root] # NIL
    /\ KeyOf(root) = call.key

\* C13 (SpecSplay): find(k) for a key k that no node of the tree holds returns
\* absent and changes nothing: the root, every left, right and parent link,
\* every value and the set of nodes are the same, and no splay is started.
C13_FindMissChangesNothing ==
    [][(/\ pc = "idle"
        /\ call'.op = "find"
        /\ call'.key \notin TreeKeys)
       => /\ ~call'.found
          /\ pc' = "idle"
          /\ TreeState' = TreeState]_vars

\* a find missed on a tree of three nodes whose root has a child
C13_FindMissed ==
    /\ pc = "idle"
    /\ call.op = "find"
    /\ ~call.found
    /\ call.key \notin TreeKeys
    /\ Cardinality(nodes) = 3

\* C17 (Spec): a put on a key that is already present evicts nothing, even on
\* a full cache: the set of keys and the size stay the same, the key gets the
\* new value and becomes the most recent entry, and all other entries keep
\* their values and their order.
C17_PutOnPresentKeyKeepsEntries ==
    [][(/\ last'.op = "put"
        /\ Contains(cache, last'.key))
       => /\ Keys(cache') = Keys(cache)
          /\ Len(cache') = Len(cache)
          /\ cache' = Append(SelectSeq(cache, LAMBDA e : e.key # last'.key),
                             Entry(last'.key, last'.value))]_vars

\* such a put has run on a full cache of two entries
C17_PutOnPresentKeyWhenFull ==
    /\ capacity >= 2
    /\ last.op = "put"
    /\ last.present
    /\ last.size = capacity
    /\ Len(cache) = capacity
    /\ cache[Len(cache)].key = last.key
    /\ getitem(cache, last.key) = last.value

\* C12 (SpecSplayCalls): when insert(k, v) has returned and k was in the tree
\* when it was called, the nodes are the same objects as before, so their
\* number and the set of keys are unchanged and one node holds k; that node
\* now has the value v and is the root, and every other node has the value it
\* had before.
C12_InsertExistingKeyOverwrites ==
    (/\ pc = "idle"
     /\ call.op = "insert"
     /\ \E n \in before.nodes : KeyOf(n) = call.key)
    => /\ nodes = before.nodes
       /\ Cardinality({n \in nodes : KeyOf(n) = call.key}) = 1
       /\ root \in nodes
       /\ KeyOf(root) = call.key
       /\ value[root] = call.value
       /\ \A n \in nodes : KeyOf(n) # call.key => value[n] = before.value[n]

\* an insert has returned that changed the value of a key of a tree of three
\* or more nodes
C12_OverwroteValue ==
    /\ pc = "idle"
    /\ call.op = "insert"
    /\ Cardinality(before.nodes) >= 3
    /\ \E n \in before.nodes :
        /\ KeyOf(n) = call.key
        /\ before.value[n] # call.value
    /\ left[root] # NIL
    /\ right[root] # NIL

\* C14 (SpecSplayCalls): when a find(k) that directly follows a find(k) has
\* returned, its result is the result of the first (both found k with the same
\* value, or both did not find it) and the root and every left, right and
\* parent link are as the first call left them.
C14_RepeatedFindKeepsShape ==
    (/\ pc = "idle"
     /\ call.op = "find"
     /\ before.again)
    => /\ call = before.prev
       /\ <<root, left, right, parent>> = before.links

\* a find has been repeated on a key it found, in a tree of four nodes
C14_RepeatedSuccessfulFind ==
    /\ pc = "idle"
    /\ call.op = "find"
    /\ before.again
    /\ call.found
    /\ Cardinality(nodes) = 4
    /\ left[root] # NIL
    /\ right[root] # NIL

\* C15 (SpecSplayMap): the tree is a map that loses nothing.  In every state
\* the keys reached from the root are the keys inserted so far and each holds
\* the value of its latest insert; a find of an inserted key returns that
\* value and a find of a key never inserted returns absent; and after
\* insert 5, 3, 8, 1, 4 into the empty tree and find(1), the root has key 1
\* and the in-order traversal is 1, 3, 4, 5, 8.
C15_TreeIsMapOfInserts ==
    /\ SubtreeKeys(root, Fuel) = {k \in NodeKeys : stored[k] # 0}
    /\ Len(InOrder(root, Fuel)) = Cardinality(SubtreeKeys(root, Fuel))
    /\ \A n \in nodes : value[n] = stored[KeyOf(n)]
    /\ call.op = "find" =>
        /\ call.found <=> stored[call.key] # 0
        /\ call.found => call.ret = stored[call.key]
    /\ (pc = "idle" /\ tscen = Len(TreeScenario) + 1) =>
        /\ KeyOf(root) = 1
        /\ InOrder(root, Fuel) = <<1, 3, 4, 5, 8>>

\* the scenario has run to the return of find(1), which found the value of
\* the insert of 1
C15_ScenarioDone ==
    /\ pc = "idle"
    /\ tscen = Len(TreeScenario) + 1
    /\ call.op = "find"
    /\ call.found
    /\ call.ret = stored[1]

RECURSIVE F(_)
\* the Fibonacci numbers: F(0) = 0, F(1) = 1, F(n) = F(n - 1) + F(n - 2)
F(n) == IF n = 0 THEN 0 ELSE IF n = 1 THEN 1 ELSE F(n - 1) + F(n - 2)

\* C16 (SpecFib): on every tree reached from the empty one by calls of
\* fibonacci_splay, fibonacci_splay(n, tree) returns F(n) for 0 <= n <= MaxFib,
\* and every node of the tree has a key k >= 2 and the value F(k).
C16_FibonacciSplayReturnsFibonacci ==
    /\ call.op = "fib" => call.ret = F(call.n)
    /\ \A m \in nodes : KeyOf(m) >= 2 /\ value[m] = F(KeyOf(m))
    /\ pc = "idle"

\* a call for n >= 4 was answered from the tree: its key is at the root of a
\* tree that also holds larger keys
C16_AnsweredFromTree ==
    /\ call.op = "fib"
    /\ call.n >= 4
    /\ root # NIL
    /\ KeyOf(root) = call.n
    /\ right[root] # NIL
    /\ left[root] # NIL

RECURSIVE ShapeOf(_, _, _)
\* the subtree of n in the links T as a term: <<>> for no node, else
\* <<left subtree, node, right subtree>>
ShapeOf(T, n, fuel) ==
    IF n = NIL \/ fuel = 0 THEN <<>>
    ELSE <<ShapeOf(T, T.left[n], fuel - 1), n, ShapeOf(T, T.right[n], fuel - 1)>>

\* the key at the top of a term that is not empty
TopKey(t) == KeyOf(t[2])

RECURSIVE ReferenceStep(_, _)
\* One step of the reference splay of key x in the term t, where x is in t and
\* not at its top.  With x below p below g and subtrees A, B, C, D:
\*   zig      (A x B) p C        ->  A x (B p C)         when p is the root
\*   zig-zig  ((A x B) p C) g D  ->  A x (B p (C g D))
\*   zig-zag  (A p (B x C)) g D  ->  (A p B) x (C g D)
\* and their mirror images; the step is made at the grandparent of x.
ReferenceStep(t, x) ==
    IF x < TopKey(t)
    THEN LET p == t[1]
         IN  IF x = TopKey(p)
             THEN <<p[1], p[2], <<p[3], t[2], t[3]>>>>
             ELSE IF x < TopKey(p) /\ p[1] # <<>> /\ TopKey(p[1]) = x
             THEN <<p[1][1], p[1][2], <<p[1][3], p[2], <<p[3], t[2], t[3]>>>>>>
             ELSE IF x > TopKey(p) /\ p[3] # <<>> /\ TopKey(p[3]) = x
             THEN <<<<p[1], p[2], p[3][1]>>, p[3][2], <<p[3][3], t[2], t[3]>>>>
             ELSE <<ReferenceStep(p, x), t[2], t[3]>>
    ELSE LET p == t[3]
         IN  IF x = TopKey(p)
             THEN <<<<t[1], t[2], p[1]>>, p[2], p[3]>>
             ELSE IF x > TopKey(p) /\ p[3] # <<>> /\ TopKey(p[3]) = x
             THEN <<<<<<t[1], t[2], p[1]>>, p[2], p[3][1]>>, p[3][2], p[3][3]>>
             ELSE IF x < TopKey(p) /\ p[1] # <<>> /\ TopKey(p[1]) = x
             THEN <<<<t[1], t[2], p[1][1]>>, p[1][2], <<p[1][3], p[2], p[3]>>>>
             ELSE <<t[1], t[2], ReferenceStep(p, x)>>

\* the tree after the pass of the loop of _splay that is about to run: its
\* first rotation and, for zig-zig and zig-zag, its second
AfterPass ==
    LET s == splay_first(Tree, node)
    IN  IF s.second = "none" \/ ~s.tree.ok THEN s.tree
        ELSE splay_second(s.tree, node, s.second)

\* C18 (SpecSplayCalls): every pass of the loop of _splay turns the tree into
\* the tree one step of the reference splay gives: zig when the parent is the
\* root, zig-zig (grandparent rotated first) for same-side children, zig-zag
\* for opposite-side children.  Every rotation lifts the node by one level, so
\* a node that starts at depth d is at the root after exactly d rotations.
C18_SplayFollowsReference ==
    /\ (pc = "splay" /\ parent[node] # NIL) =>
        /\ AfterPass.ok
        /\ ShapeOf(AfterPass, AfterPass.root, Fuel)
               = ReferenceStep(ShapeOf(Tree, root, Fuel), KeyOf(node))
    /\ pc \in {"splay", "rotate2"} =>
        rots + DepthIn(parent, node, Fuel) = depth0
    /\ (pc = "splay" /\ parent[node] = NIL) => rots = depth0 /\ root = node

\* a splay of a node that began at depth 3 has made its three rotations
C18_ThreeRotationsDone ==
    /\ pc = "splay"
    /\ parent[node] = NIL
    /\ depth0 = 3
    /\ rots = 3

\* C20 (SpecSplayFair): every splay ends.  No call raises for a missing
\* child or descends without end; every rotation of _splay, and so every pass
\* of its loop, lowers the depth of the node; the loop is left only with the
\* node at the root, without a parent; and every insert and find that has
\* begun returns.
C20_SplayTerminates ==
    /\ [](pc \in {"idle", "splay", "rotate2"})
    /\ [][(pc = "rotate2" \/ (pc = "splay" /\ parent[node] # NIL))
          => /\ pc' \in {"splay", "rotate2"}
             /\ DepthIn(parent', node, Fuel) = DepthIn(parent, node, Fuel) - 1
             /\ node' = node]_vars
    /\ [][(pc # "idle" /\ pc' = "idle")
          => parent[node] = NIL /\ root = node /\ TreeState' = TreeState]_vars
    /\ (pc # "idle") ~> (pc = "idle")

\* a call has returned after splaying a node that has a grandchild below it
C20_SplayCompleted ==
    /\ pc = "idle"
    /\ call.op \in {"insert", "find"}
    /\ node = root
    /\ root # NIL
    /\ \E c \in nodes : parent[c] # NIL /\ parent[parent[c]] = root

RECURSIVE Walk(_, _)
\* the nodes met by following left and right links down from n, each as often
\* as it is met
Walk(n, fuel) ==
    IF n = NIL \/ fuel = 0 THEN <<>>
    ELSE <<n>> \o Walk(left[n], fuel - 1) \o Walk(right[n], fuel - 1)

\* C19 (SpecSplay): in every state, between the two rotations of a step too,
\* the root has no parent, a node is the parent of its left and of its right
\* child, every node but the root is the left or the right child of its parent
\* and of no other node, and every node is reached from the root exactly once.
C19_LinksConsistent ==
    /\ root = NIL <=> nodes = {}
    /\ root # NIL => root \in nodes /\ parent[root] = NIL
    /\ \A n \in nodes :
        /\ left[n] # NIL => left[n] \in nodes /\ parent[left[n]] = n
        /\ right[n] # NIL => right[n] \in nodes /\ parent[right[n]] = n
        /\ left[n] # NIL => left[n] # right[n]
        /\ n # root =>
            /\ parent[n] \in nodes
            /\ left[parent[n]] = n \/ right[parent[n]] = n
    /\ LET walk == Walk(root, Fuel)
       IN  /\ Len(walk) = Cardinality(nodes)
           /\ {walk[i] : i \in 1 .. Len(walk)} = nodes

\* the tree is between the two rotations of a zig-zig or zig-zag step, and the
\* node being splayed has a child on each side
C19_MidStepWithSubtrees ==
    /\ pc = "rotate2"
    /\ left[node] # NIL
    /\ right[node] # NIL
====
